---- MODULE Spec2Model ----
(***************************************************************************)
(* A model of ls-rust: the directory reader (directory.rs), the sort       *)
(* engine (sorting.rs), the entry record (file_info.rs), the renderer      *)
(* (formatter.rs, utils.rs) and the binary's driver (main.rs).             *)
(*                                                                         *)
(* Text is modelled as a sequence of one-character strings, so that        *)
(* prefixes, padding, lower-casing and byte-wise comparison are computed   *)
(* and not assumed.                                                        *)
(***************************************************************************)
EXTENDS Integers, Sequences, FiniteSets, TLC

\* ------------------------------------------------------------------ bounds

\* Longest directory listing drawn for a directory scan.
MaxScanEntries == 3

\* ------------------------------------------------------------------- text

\* The byte value of the characters base names are drawn from.
Code(c) ==
    CASE c = "." -> 46
      [] c = "A" -> 65
      [] c = "B" -> 66
      [] c = "a" -> 97
      [] c = "b" -> 98

\* char::to_lowercase on the characters base names are drawn from.
LowerChar(c) ==
    CASE c = "A" -> "a"
      [] c = "B" -> "b"
      [] OTHER -> c

\* str::to_lowercase
to_lowercase(s) == [i \in 1..Len(s) |-> LowerChar(s[i])]

\* str::starts_with(char)
starts_with(s, c) == Len(s) > 0 /\ s[1] = c

\* Path::join: an absolute name replaces the path; otherwise the name is
\* appended, after a separator unless the path is empty or ends with one.
PathJoin(dir, name) ==
    IF starts_with(name, "/") THEN name
    ELSE IF dir = <<>> THEN name
    ELSE IF dir[Len(dir)] = "/" THEN dir \o name
    ELSE dir \o <<"/">> \o name

\* ------------------------------------------------------------- formatting

\* One decimal digit as a character.
DigitChar(d) ==
    CASE d = 0 -> "0" [] d = 1 -> "1" [] d = 2 -> "2" [] d = 3 -> "3" [] d = 4 -> "4"
      [] d = 5 -> "5" [] d = 6 -> "6" [] d = 7 -> "7" [] d = 8 -> "8" [] d = 9 -> "9"

\* u64::to_string: the decimal digits of n, most significant first.
RECURSIVE Digits(_)
Digits(n) == IF n < 10 THEN <<DigitChar(n)>> ELSE Append(Digits(n \div 10), DigitChar(n % 10))

\* A run of n spaces.
Spaces(n) == [i \in 1..n |-> " "]

\* `{:>w}`: right-justified in a field of w characters, never cut.
PadLeft(s, w) == IF Len(s) >= w THEN s ELSE Spaces(w - Len(s)) \o s

\* The text of a string literal of the source, character by character.
Total == <<"t", "o", "t", "a", "l">>
Arrow == <<" ", "-", ">", " ">>

\* `mode & (1 << k) != 0`
BitSet(mode, k) == (mode \div (2 ^ k)) % 2 = 1

\* A triplet that reads its three bits in the order x, w, r: a variant.
TripletMutant(mode, shift) ==
    << IF BitSet(mode, shift) THEN "r" ELSE "-",
       IF BitSet(mode, shift + 1) THEN "w" ELSE "-",
       IF BitSet(mode, shift + 2) THEN "x" ELSE "-" >>

\* utils::triplet, for the value `mode >> shift`.
triplet(mode, shift) ==
    << IF BitSet(mode, shift + 2) THEN "r" ELSE "-",
       IF BitSet(mode, shift + 1) THEN "w" ELSE "-",
       IF BitSet(mode, shift) THEN "x" ELSE "-" >>

\* A permission string that prints '-' for every file type: a variant.
FormatPermissionsMutant(metadata) ==
    <<"-">> \o triplet(metadata.mode, 6) \o triplet(metadata.mode, 3)
        \o triplet(metadata.mode, 0)

\* utils::format_permissions
format_permissions(metadata) ==
    LET file_type == IF metadata.ftype = "dir" THEN "d"
                     ELSE IF metadata.ftype = "symlink" THEN "l"
                     ELSE "-"
    IN  <<file_type>> \o triplet(metadata.mode, 6) \o triplet(metadata.mode, 3)
            \o triplet(metadata.mode, 0)

\* Two digits, zero padded (`%d`, `%H`, `%M`).
TwoDigits(n) == <<DigitChar(n \div 10), DigitChar(n % 10)>>

\* utils::format_time, "%b %d %H:%M" in local time, for the seconds of
\* 1 January 1970 with the local zone at UTC.
format_time(t) ==
    <<"J", "a", "n", " ", "0", "1", " ">> \o TwoDigits(t \div 3600) \o <<":">>
        \o TwoDigits((t % 3600) \div 60)

\* SystemTime::UNIX_EPOCH
UNIX_EPOCH == 0

\* users::get_user_by_uid / get_group_by_gid: the identity resolver knows
\* id 0, and id 513 under a name of two words.
get_user_by_uid(uid) ==
    IF uid = 0 THEN <<"r", "o", "o", "t">>
    ELSE IF uid = 513 THEN <<"d", " ", "u">>
    ELSE <<>>

\* The owner and group columns: the name, or the numeric id when none maps.
owner_name(uid) == IF get_user_by_uid(uid) /= <<>> THEN get_user_by_uid(uid) ELSE Digits(uid)

\* utils::colorize_name: the text and the colour chosen for it. The ANSI
\* annotation itself is applied by the `colored` crate outside the model.
colorize_name(name, metadata) ==
    [text |-> name,
     color |-> IF metadata.ftype = "dir" THEN "blue"
               ELSE IF \E k \in {0, 3, 6} : BitSet(metadata.mode, k) THEN "red"
               ELSE IF BitSet(metadata.mode, 2) THEN "green"
               ELSE "white"]

\* ---------------------------------------------------- human-readable sizes

\* A byte count, or the f64 scaled from it, held exactly as m * 1024^e with
\* m < 2^31 (e may be negative): such a byte count converts to f64 without
\* rounding and every `size /= 1024.0` of the source is exact, so nothing is
\* rounded before printing.
Pow1024(k) == 1024 ^ k

\* The numerator and denominator of m * 1024^e.
Numer(v) == IF v.e >= 0 THEN v.m * Pow1024(v.e) ELSE v.m
Denom(v) == IF v.e >= 0 THEN 1 ELSE Pow1024(0 - v.e)

\* `size >= x` for an integer x in 1..1024, decided on the exponent first so
\* that no power beyond the machine integers is formed: m / 1024^k >= x
\* exactly when the whole part of the quotient is, and m < 2^31 is below
\* 1024^4.
GeInt(v, x) ==
    IF v.e >= 1 THEN v.m >= 1
    ELSE IF v.e = 0 THEN v.m >= x
    ELSE IF v.e >= -3 THEN (v.m \div Pow1024(0 - v.e)) >= x
    ELSE FALSE

\* UNITS of format_size_human.
UNITS == <<"", "K", "M", "G", "T", "P">>

\* A loop that divides by 1024 from 1000 on: a variant format_size_human must differ from.
RECURSIVE HumanLoopMutant(_, _)
HumanLoopMutant(size, unit_index) ==
    IF GeInt(size, 1000) /\ unit_index < Len(UNITS) - 1
    THEN HumanLoopMutant([m |-> size.m, e |-> size.e - 1], unit_index + 1)
    ELSE [size |-> size, unit_index |-> unit_index]

\* The while loop of format_size_human.
RECURSIVE human_loop(_, _)
human_loop(size, unit_index) ==
    IF GeInt(size, 1024) /\ unit_index < Len(UNITS) - 1
    THEN human_loop([m |-> size.m, e |-> size.e - 1], unit_index + 1)
    ELSE [size |-> size, unit_index |-> unit_index]

\* n / d rounded to the nearest integer, ties to even: what `{:.0}` and
\* `{:.1}` do with the exact value of an f64.
RoundHalfEven(n, d) ==
    LET q == n \div d
        r == n % d
    IN  IF 2 * r > d THEN q + 1
        ELSE IF 2 * r = d THEN q + (q % 2)
        ELSE q

\* `{:.0}` of the scaled value.
Fixed0(v) == Digits(RoundHalfEven(Numer(v), Denom(v)))

\* 10 * r / d rounded to the nearest integer, ties to even, for a remainder
\* r < d and d a power of 1024, formed from the two halves of r so that no
\* product leaves the machine integers.
RoundTenths(r, d) ==
    IF d = 1 THEN 10 * r
    ELSE LET dd == d \div 1024
             x == 10 * (r \div 1024) + ((10 * (r % 1024)) \div 1024)
             f == (10 * (r % 1024)) % 1024
             q == x \div dd
             rest == x % dd
         IN  IF 2 * rest > dd \/ (2 * rest = dd /\ f > 0) \/ (2 * rest = dd - 1 /\ f > 512)
             THEN q + 1
             ELSE IF (2 * rest = dd /\ f = 0) \/ (2 * rest = dd - 1 /\ f = 512)
             THEN q + (q % 2)
             ELSE q

\* `{:.1}` of the scaled value.
Fixed1(v) ==
    LET whole == Numer(v) \div Denom(v)
        tenths == 10 * whole + RoundTenths(Numer(v) % Denom(v), Denom(v))
    IN  Digits(tenths \div 10) \o <<".">> \o <<DigitChar(tenths % 10)>>

\* The unit letter as text ("" for plain bytes).
UnitText(unit_index) == IF UNITS[unit_index + 1] = "" THEN <<>> ELSE <<UNITS[unit_index + 1]>>

\* utils::format_size_human
format_size_human(size) ==
    LET r == human_loop(size, 0)
    IN  IF r.unit_index = 0
        THEN PadLeft(Digits(Numer(r.size)), 4)
        ELSE IF GeInt(r.size, 10)
        THEN PadLeft(Fixed0(r.size), 3) \o UnitText(r.unit_index)
        ELSE PadLeft(Fixed1(r.size), 3) \o UnitText(r.unit_index)

\* A plain byte count as a size value.
Bytes(n) == [m |-> n, e |-> 0]

\* The block size taken from the byte size (the non-unix branch): a variant.
FormatBlockSizeMutant(metadata) == PadLeft(Digits((metadata.len + 1023) \div 1024), 8)

\* utils::format_block_size (unix): `(blocks * 512).div_ceil(1024)`, `{:>8}`.
format_block_size(metadata) == PadLeft(Digits((metadata.blocks * 512 + 1023) \div 1024), 8)

\* ------------------------------------------------------- directory reader

\* Base names a directory scan is drawn from ("." and ".." never come out
\* of read_dir).
ScanNames == { <<"a">>, <<"B">>, <<".", "h">>, <<".", "a">> }

\* The io::Error values a scan can meet.
IoErrors == { "EACCES", "ENOENT" }

NoError == "none"

\* File types of a metadata snapshot.
FileTypes == { "file", "dir", "symlink", "other" }

\* std::fs::Metadata: the snapshot one stat call returns.
Meta(ftype, mode, len, blocks, nlink, uid, mtime_ok, mtime) ==
    [ftype |-> ftype, mode |-> mode, len |-> len, blocks |-> blocks, nlink |-> nlink,
     uid |-> uid, gid |-> uid, mtime_ok |-> mtime_ok, mtime |-> mtime]

\* A regular file of 13 bytes (0o644), a directory (0o755), a symlink (0o777).
RegularMeta == Meta("file", 420, 13, 8, 1, 1000, TRUE, 60)
DirMeta == Meta("dir", 493, 4096, 8, 2, 0, TRUE, 120)
SymlinkMeta == Meta("symlink", 511, 10, 0, 1, 1000, TRUE, 0)

\* What DirEntry::metadata gives for the entries of a scan (lstat: a symlink
\* stays a symlink).
ScanMetadata == { RegularMeta, DirMeta, SymlinkMeta }

NoMetadata == Meta("none", 0, 0, 0, 0, 0, FALSE, 0)

\* One item of the fs::read_dir iterator: Err(error), or Ok(entry) with the
\* entry's name and what entry.metadata() will answer.
ReadDirItems ==
    { [ok |-> TRUE, file_name |-> n, md_ok |-> TRUE, metadata |-> m, error |-> NoError] :
        n \in ScanNames, m \in ScanMetadata }
    \cup
    { [ok |-> TRUE, file_name |-> n, md_ok |-> FALSE, metadata |-> NoMetadata, error |-> e] :
        n \in ScanNames, e \in IoErrors }
    \cup
    { [ok |-> FALSE, file_name |-> <<>>, md_ok |-> FALSE, metadata |-> NoMetadata, error |-> e] :
        e \in IoErrors }

\* from_entry taking the metadata through a link (fs::metadata): a variant.
FromEntryFollowMutant(dir, item) ==
    IF item.followed.ok
    THEN [ok |-> TRUE,
          info |-> [path |-> PathJoin(dir, item.file_name),
                    file_name |-> item.file_name,
                    metadata |-> item.followed.metadata],
          error |-> NoError]
    ELSE [ok |-> FALSE,
          info |-> [path |-> <<>>, file_name |-> <<>>, metadata |-> NoMetadata],
          error |-> "ELOOP"]

\* FileInfo::from_entry: Err when entry.metadata() fails, else the record.
from_entry(dir, item) ==
    IF item.md_ok
    THEN [ok |-> TRUE,
          info |-> [path |-> PathJoin(dir, item.file_name),
                    file_name |-> item.file_name,
                    metadata |-> item.metadata],
          error |-> NoError]
    ELSE [ok |-> FALSE,
          info |-> [path |-> <<>>, file_name |-> <<>>, metadata |-> NoMetadata],
          error |-> item.error]

\* A filter that ignores show_all: a variant the hidden filter must differ from.
SkipsHiddenMutant(show_all, file_name) == starts_with(file_name, ".")

\* The filter of collect_entries: `!show_all && file_name.starts_with('.')`.
skips_hidden(show_all, file_name) == ~show_all /\ starts_with(file_name, ".")

\* ------------------------------------------------------------ sort engine

\* Ord::cmp on integers.
cmp_int(x, y) == IF x < y THEN "Less" ELSE IF x > y THEN "Greater" ELSE "Equal"

\* Ord::cmp on strings: byte-wise, a proper prefix is Less.
RECURSIVE cmp_from(_, _, _)
cmp_from(a, b, i) ==
    IF i > Len(a) /\ i > Len(b) THEN "Equal"
    ELSE IF i > Len(a) THEN "Less"
    ELSE IF i > Len(b) THEN "Greater"
    ELSE IF Code(a[i]) < Code(b[i]) THEN "Less"
    ELSE IF Code(a[i]) > Code(b[i]) THEN "Greater"
    ELSE cmp_from(a, b, i + 1)

cmp_str(a, b) == cmp_from(a, b, 1)

\* Ordering::reverse as sort_entries spells it out.
reverse_ordering(c) ==
    CASE c = "Less" -> "Greater"
      [] c = "Greater" -> "Less"
      [] c = "Equal" -> "Equal"

\* FileInfo::modified_time: the epoch start when the time is unavailable.
modified_time(info) ==
    IF info.metadata.mtime_ok THEN info.metadata.mtime ELSE UNIX_EPOCH

\* The comparison by time the other way round (`a.cmp(b)`): a variant.
TimeCmpMutant(a, b) == cmp_int(modified_time(a), modified_time(b))

\* The comparison of sort_entries by modification time: `b.cmp(a)`.
time_cmp(a, b) == cmp_int(modified_time(b), modified_time(a))

\* The comparison by name without lower-casing: a variant.
NameCmpMutant(a, b) == cmp_str(a.file_name, b.file_name)

\* The comparison of sort_entries by name: lower-cased on both sides.
name_cmp(a, b) == cmp_str(to_lowercase(a.file_name), to_lowercase(b.file_name))

\* The closure sort_entries hands to sort_by.
sort_entries_cmp(a, b, config) ==
    LET cmp == IF config.by_time THEN time_cmp(a, b) ELSE name_cmp(a, b)
    IN  IF config.reverse THEN reverse_ordering(cmp) ELSE cmp

\* The comparison of directories on lower-cased names: a variant.
SortDirectoriesCmpMutant(a, b) == name_cmp(a, b)

\* The closure sort_directories hands to sort_by: the raw base names.
sort_directories_cmp(a, b) == cmp_str(a.file_name, b.file_name)

\* The position of the last separator of a path up to position i, 0 when
\* there is none.
RECURSIVE LastSlash(_, _)
LastSlash(path, i) ==
    IF i = 0 THEN 0 ELSE IF path[i] = "/" THEN i ELSE LastSlash(path, i - 1)

\* The pieces of a path between its separators, empty ones included.
RECURSIVE Pieces(_)
Pieces(path) ==
    IF LastSlash(path, Len(path)) = 0 THEN <<path>>
    ELSE Pieces(SubSeq(path, 1, LastSlash(path, Len(path)) - 1))
            \o <<SubSeq(path, LastSlash(path, Len(path)) + 1, Len(path))>>

\* The pieces from position i on that count as components: no empty piece,
\* and no "." but the one the path starts with.
RECURSIVE KeptFrom(_, _)
KeptFrom(pieces, i) ==
    IF i > Len(pieces) THEN <<>>
    ELSE (IF pieces[i] /= <<>> /\ (pieces[i] /= <<".">> \/ i = 1) THEN <<pieces[i]>> ELSE <<>>)
            \o KeptFrom(pieces, i + 1)

\* Path::components: the root "/" of an absolute path, a leading ".", every
\* ".." and every name; repeated and trailing separators and every other
\* "." are dropped.
Components(path) ==
    (IF starts_with(path, "/") THEN <<<<"/">>>> ELSE <<>>) \o KeptFrom(Pieces(path), 1)

\* Path::file_name().unwrap_or("."): the last component when it is a name,
\* "." when the path is empty or ends in the root, "." or "..".
BaseName(path) ==
    LET comps == Components(path)
    IN  IF comps = <<>> THEN <<".">>
        ELSE IF comps[Len(comps)] \in { <<"/">>, <<".">>, <<".", ".">> } THEN <<".">>
        ELSE comps[Len(comps)]

\* main.rs FileInfo::file_name
main_file_name(info) == BaseName(info.path)

\* The closure `run` of main.rs hands to sort_by.
run_cmp(a, b) == cmp_str(to_lowercase(main_file_name(a)), to_lowercase(main_file_name(b)))

\* The comparison a sort is run with: sort_entries under a Sort
\* Configuration, sort_directories, or the sort of main.rs's run.
ordering(by, a, b) ==
    CASE by.kind = "entries" -> sort_entries_cmp(a, b, by.config)
      [] by.kind = "directories" -> sort_directories_cmp(a, b)
      [] by.kind = "run" -> run_cmp(a, b)

\* slice::sort_by is a stable sort. One insertion: x goes after every element
\* that does not compare Greater than it.
RECURSIVE insert_after_equal(_, _, _)
insert_after_equal(sorted, x, by) ==
    IF sorted = <<>> THEN <<x>>
    ELSE IF ordering(by, Head(sorted), x) = "Greater" THEN <<x>> \o sorted
    ELSE <<Head(sorted)>> \o insert_after_equal(Tail(sorted), x, by)

RECURSIVE sort_from(_, _, _)
sort_from(sorted, rest, by) ==
    IF rest = <<>> THEN sorted
    ELSE sort_from(insert_after_equal(sorted, Head(rest), by), Tail(rest), by)

\* slice::sort_by
sort_by(s, by) == sort_from(<<>>, s, by)

\* sorting::sort_entries
sort_entries(entries, config) == sort_by(entries, [kind |-> "entries", config |-> config])

\* sorting::sort_directories
sort_directories(dirs) == sort_by(dirs, [kind |-> "directories"])

\* ------------------------------------------------------- main.rs: the binary

\* Joins the columns of a line with single spaces.
RECURSIVE JoinSpace(_)
JoinSpace(cols) ==
    IF Len(cols) = 1 THEN cols[1] ELSE cols[1] \o <<" ">> \o JoinSpace(Tail(cols))

\* main.rs FileInfo::from_entry
main_from_entry(dir, item) ==
    IF item.md_ok
    THEN [ok |-> TRUE,
          info |-> [path |-> PathJoin(dir, item.file_name), metadata |-> item.metadata],
          error |-> NoError]
    ELSE [ok |-> FALSE, info |-> [path |-> <<>>, metadata |-> NoMetadata], error |-> item.error]

\* fs::read_dir on a node of the file system.
read_dir(node) ==
    IF node.kind = "dir" THEN [ok |-> TRUE, items |-> node.items, error |-> NoError]
    ELSE [ok |-> FALSE, items |-> <<>>,
          error |-> IF node.kind = "missing" THEN "ENOENT" ELSE "ENOTDIR"]

\* The loop of main.rs's collect_entries: both `?` return the first failure.
RECURSIVE main_collect_loop(_, _, _, _, _)
main_collect_loop(dir, items, i, show_all, entries) ==
    IF i > Len(items) THEN [ok |-> TRUE, entries |-> entries, error |-> NoError]
    ELSE IF ~items[i].ok THEN [ok |-> FALSE, entries |-> <<>>, error |-> items[i].error]
    ELSE IF skips_hidden(show_all, items[i].file_name)
    THEN main_collect_loop(dir, items, i + 1, show_all, entries)
    ELSE IF ~main_from_entry(dir, items[i]).ok
    THEN [ok |-> FALSE, entries |-> <<>>, error |-> main_from_entry(dir, items[i]).error]
    ELSE main_collect_loop(dir, items, i + 1, show_all,
                           Append(entries, main_from_entry(dir, items[i]).info))

\* main.rs collect_entries
main_collect_entries(dir, node, show_all) ==
    IF ~read_dir(node).ok
    THEN [ok |-> FALSE, entries |-> <<>>, error |-> read_dir(node).error]
    ELSE main_collect_loop(dir, read_dir(node).items, 1, show_all, <<>>)

\* main.rs FileInfo::display_long_format
main_display_long_format(info, name, args) ==
    JoinSpace(<< format_permissions(info.metadata),
                 PadLeft(Digits(info.metadata.nlink), 3),
                 owner_name(info.metadata.uid),
                 owner_name(info.metadata.gid),
                 PadLeft(IF args.human_readable
                         THEN format_size_human(Bytes(info.metadata.len))
                         ELSE Digits(info.metadata.len), 8),
                 format_time(IF info.metadata.mtime_ok THEN info.metadata.mtime
                             ELSE UNIX_EPOCH),
                 colorize_name(name, info.metadata).text >>)

\* main.rs FileInfo::display: the line printed for one entry.
main_display(info, args) ==
    LET name == main_file_name(info)
    IN  IF args.long THEN main_display_long_format(info, name, args)
        ELSE IF args.size
        THEN (IF args.human_readable THEN format_size_human(Bytes(info.metadata.len))
              ELSE format_block_size(info.metadata))
             \o <<" ">> \o colorize_name(name, info.metadata).text
        ELSE colorize_name(name, info.metadata).text

\* Headers for a single path too: a variant.
MultiplePathsMutant(paths) == Len(paths) > 0

\* `paths.len() > 1`
multiple_paths(paths) == Len(paths) > 1

\* The lines `run` prints before the listing of paths[index + 1]: a blank
\* line before every path but the first, and the header, when several
\* paths were asked for.
path_preamble(paths, index) ==
    (IF multiple_paths(paths) /\ index > 0 THEN << <<>> >> ELSE <<>>)
    \o (IF multiple_paths(paths) THEN << paths[index + 1] \o <<":">> >> ELSE <<>>)

\* ------------------------------------------------- entry record and renderer

\* An object of the file system as the record's path names it: whether it
\* exists, what lstat answers for it, and for a symbolic link the target
\* path and whether the target exists.
FsObject(exists, metadata, target, target_exists) ==
    [exists |-> exists, metadata |-> metadata, target |-> target,
     target_exists |-> target_exists]

\* fs::symlink_metadata / DirEntry::metadata: lstat, a link is not followed.
symlink_metadata(obj) ==
    IF obj.exists THEN [ok |-> TRUE, metadata |-> obj.metadata, error |-> NoError]
    ELSE [ok |-> FALSE, metadata |-> NoMetadata, error |-> "ENOENT"]

\* fs::metadata: stat, a link is followed to its target (a regular file
\* here), and a broken link is an error.
metadata_following(obj) ==
    IF ~obj.exists THEN [ok |-> FALSE, metadata |-> NoMetadata, error |-> "ENOENT"]
    ELSE IF obj.metadata.ftype /= "symlink"
    THEN [ok |-> TRUE, metadata |-> obj.metadata, error |-> NoError]
    ELSE IF obj.target_exists THEN [ok |-> TRUE, metadata |-> RegularMeta, error |-> NoError]
    ELSE [ok |-> FALSE, metadata |-> NoMetadata, error |-> "ENOENT"]

\* fs::read_link: the target path as stored, whether or not it exists.
read_link(obj) ==
    IF obj.exists /\ obj.metadata.ftype = "symlink"
    THEN [ok |-> TRUE, target |-> obj.target]
    ELSE [ok |-> FALSE, target |-> <<>>]

NoInfo == [path |-> <<>>, file_name |-> <<>>, metadata |-> NoMetadata]

\* from_path reading the metadata through the link (fs::metadata): a variant.
FromPathFollowMutant(path, obj) ==
    IF metadata_following(obj).ok
    THEN [ok |-> TRUE,
          info |-> [path |-> path, file_name |-> BaseName(path),
                    metadata |-> metadata_following(obj).metadata],
          error |-> NoError]
    ELSE [ok |-> FALSE, info |-> NoInfo, error |-> metadata_following(obj).error]

\* FileInfo::from_path (file_info.rs): symlink_metadata of the path, the
\* base name taken from the path.
from_path(path, obj) ==
    IF symlink_metadata(obj).ok
    THEN [ok |-> TRUE,
          info |-> [path |-> path, file_name |-> BaseName(path),
                    metadata |-> symlink_metadata(obj).metadata],
          error |-> NoError]
    ELSE [ok |-> FALSE, info |-> NoInfo, error |-> symlink_metadata(obj).error]

\* The read_dir item of an object found under the name file_name.
ItemOf(file_name, obj) ==
    [ok |-> TRUE, file_name |-> file_name, md_ok |-> symlink_metadata(obj).ok,
     metadata |-> symlink_metadata(obj).metadata, error |-> symlink_metadata(obj).error]

\* FileInfo::symlink_target: read_link of the record's path, now, when the
\* snapshot says symlink.
symlink_target(info, now) ==
    IF info.metadata.ftype = "symlink" THEN read_link(now)
    ELSE [ok |-> FALSE, target |-> <<>>]

\* FileInfoFormatter::format_long
format_long(info, human_readable, now) ==
    LET size == IF human_readable THEN format_size_human(Bytes(info.metadata.len))
                ELSE Digits(info.metadata.len)
        modified == format_time(IF info.metadata.mtime_ok THEN info.metadata.mtime
                                ELSE UNIX_EPOCH)
        colored == colorize_name(info.file_name, info.metadata).text
        display_name == IF symlink_target(info, now).ok
                        THEN colored \o Arrow \o symlink_target(info, now).target
                        ELSE colored
    IN  JoinSpace(<< format_permissions(info.metadata),
                     PadLeft(Digits(info.metadata.nlink), 3),
                     owner_name(info.metadata.uid),
                     owner_name(info.metadata.gid),
                     PadLeft(size, 8),
                     modified,
                     display_name >>)

\* impl Display for FileInfoFormatter
formatter_fmt(info, format, human_readable, now) ==
    CASE format = "Name" -> colorize_name(info.file_name, info.metadata).text
      [] format = "WithSize" ->
            (IF human_readable THEN format_size_human(Bytes(info.metadata.len))
             ELSE format_block_size(info.metadata))
            \o <<" ">> \o colorize_name(info.file_name, info.metadata).text
      [] format = "Long" -> format_long(info, human_readable, now)

VARIABLES
    sc_dir,       \* the directory path scanned
    sc_open,      \* what fs::read_dir(dir) answers: "ok" or an io::Error
    sc_items,     \* the items the read_dir iterator will yield, in order
    sc_show_all,  \* the show_all argument
    sc_pc,        \* "call", "iter", "report", "returned"
    sc_pos,       \* next item of sc_items
    sc_entries,   \* the local `entries`
    sc_errors,    \* the local `errors`
    sc_reported,  \* how many of `errors` have been printed
    sc_stderr,    \* the error sink
    sc_result     \* the io::Result returned

scan_vars == <<sc_dir, sc_open, sc_items, sc_show_all, sc_pc, sc_pos, sc_entries,
               sc_errors, sc_reported, sc_stderr, sc_result>>

VARIABLES
    args,         \* the parsed command line (main.rs Args)
    fs,           \* the file system: the node behind every root path
    pc,           \* "run", "main", "exited"
    index,        \* the `index` of the next turn of the loop of `run`
    stdout,       \* the lines printed
    stderr,       \* the lines of the error sink
    run_result,   \* what `run` returned
    exit_code,    \* the process's exit status
    block_start   \* history: Len(stdout) when the turn for each path began

run_vars == <<args, fs, pc, index, stdout, stderr, run_result, exit_code, block_start>>

VARIABLES
    so_input,     \* the entries as handed to the first sort
    so_config,    \* the Sort Configuration
    so_entries,   \* the slice, sorted in place
    so_prev,      \* history: the slice before the last sort
    so_runs       \* how many times sort_entries has run

sort_vars == <<so_input, so_config, so_entries, so_prev, so_runs>>

VARIABLES
    rd_path,      \* the path of the record
    rd_origin,    \* "scan" (from_entry) or "root" (from_path)
    rd_obj,       \* the object the path names, now
    rd_built_obj, \* history: the object when the record was constructed
    rd_info,      \* the FileInfo record
    rd_opts,      \* the Render Options: format and human_readable
    rd_line,      \* the line rendered
    rd_pc         \* "new", "built", "failed", "rendered"

render_vars == <<rd_path, rd_origin, rd_obj, rd_built_obj, rd_info, rd_opts, rd_line, rd_pc>>

VARIABLES
    h_size,       \* the byte count handed to format_size_human, as m * 1024^e
    h_out,        \* the text returned
    h_pc          \* "call", "returned"

human_vars == <<h_size, h_out, h_pc>>

VARIABLES
    p_meta,       \* the metadata handed to format_permissions
    p_out,        \* the text returned
    p_pc          \* "call", "returned"

perm_vars == <<p_meta, p_out, p_pc>>

VARIABLES
    w_fs,         \* the directory tree walked: the listings of its directories
    w_config,     \* the Sort Configuration of the listings
    w_show_all,   \* the show_all switch
    w_stack,      \* the calls of the recursive listing in progress, innermost last
    w_stdout,     \* the lines printed
    w_last,       \* the call that returned last: its path, entries and descents
    w_pc          \* "walk", "done"

walk_vars == <<w_fs, w_config, w_show_all, w_stack, w_stdout, w_last, w_pc>>

VARIABLES
    l_name,       \* the base name of the object rendered
    l_obj,        \* the object itself
    l_info,       \* the record constructed from it
    l_line,       \* its Long format line
    l_pc          \* "new", "built", "rendered"

long_vars == <<l_name, l_obj, l_info, l_line, l_pc>>

vars == <<scan_vars, run_vars, sort_vars, render_vars, human_vars, perm_vars, walk_vars, long_vars>>

\* What each specification leaves alone.
ScanFrame == <<run_vars, sort_vars, render_vars, human_vars, perm_vars, walk_vars, long_vars>>
RunFrame == <<scan_vars, sort_vars, render_vars, human_vars, perm_vars, walk_vars, long_vars>>
SortFrame == <<scan_vars, run_vars, render_vars, human_vars, perm_vars, walk_vars, long_vars>>
RenderFrame == <<scan_vars, run_vars, sort_vars, human_vars, perm_vars, walk_vars, long_vars>>
HumanFrame == <<scan_vars, run_vars, sort_vars, render_vars, perm_vars, walk_vars, long_vars>>
PermFrame == <<scan_vars, run_vars, sort_vars, render_vars, human_vars, walk_vars, long_vars>>
WalkFrame == <<scan_vars, run_vars, sort_vars, render_vars, human_vars, perm_vars, long_vars>>
LongFrame == <<scan_vars, run_vars, sort_vars, render_vars, human_vars, perm_vars, walk_vars>>

\* Listings without a repeated name, up to n items.
NoRepeatedName(s) ==
    \A i, j \in 1..Len(s) :
        (i /= j /\ s[i].ok /\ s[j].ok) => s[i].file_name /= s[j].file_name

Listings(n) ==
    UNION { { s \in [1..k -> ReadDirItems] : NoRepeatedName(s) } : k \in 0..n }

ScanIdle ==
    /\ sc_dir = <<>>
    /\ sc_open = "ok"
    /\ sc_items = <<>>
    /\ sc_show_all = FALSE
    /\ sc_pc = "idle"
    /\ sc_pos = 1
    /\ sc_entries = <<>>
    /\ sc_errors = <<>>
    /\ sc_reported = 0
    /\ sc_stderr = <<>>
    /\ sc_result = [tag |-> "none"]

ScanStart ==
    /\ sc_dir = <<"d">>
    /\ sc_open \in {"ok"} \cup IoErrors
    /\ sc_items \in Listings(MaxScanEntries)
    /\ (sc_open /= "ok" => sc_items = <<>>)
    /\ sc_show_all \in BOOLEAN
    /\ sc_pc = "call"
    /\ sc_pos = 1
    /\ sc_entries = <<>>
    /\ sc_errors = <<>>
    /\ sc_reported = 0
    /\ sc_stderr = <<>>
    /\ sc_result = [tag |-> "none"]

\* directory.rs:16 `for entry in fs::read_dir(dir)?`: the `?` returns the
\* whole-directory failure.
ScanOpen ==
    /\ sc_pc = "call"
    /\ IF sc_open = "ok"
       THEN /\ sc_pc' = "iter"
            /\ UNCHANGED sc_result
       ELSE /\ sc_pc' = "returned"
            /\ sc_result' = [tag |-> "Err", error |-> sc_open]
    /\ UNCHANGED <<sc_dir, sc_open, sc_items, sc_show_all, sc_pos, sc_entries,
                   sc_errors, sc_reported, sc_stderr>>
    /\ UNCHANGED ScanFrame

\* One turn of the loop of collect_entries (directory.rs:16-33).
ScanEntry ==
    /\ sc_pc = "iter"
    /\ sc_pos <= Len(sc_items)
    /\ LET item == sc_items[sc_pos]
           made == from_entry(sc_dir, item)
       IN  /\ sc_pos' = sc_pos + 1
           /\ IF ~item.ok
              THEN /\ sc_errors' = Append(sc_errors, item.error)
                   /\ UNCHANGED sc_entries
              ELSE IF skips_hidden(sc_show_all, item.file_name)
              THEN UNCHANGED <<sc_entries, sc_errors>>
              ELSE IF made.ok
              THEN /\ sc_entries' = Append(sc_entries, made.info)
                   /\ UNCHANGED sc_errors
              ELSE /\ sc_errors' = Append(sc_errors, made.error)
                   /\ UNCHANGED sc_entries
    /\ UNCHANGED <<sc_dir, sc_open, sc_items, sc_show_all, sc_pc, sc_reported,
                   sc_stderr, sc_result>>
    /\ UNCHANGED ScanFrame

\* The iterator is exhausted: on to the report loop.
ScanEnd ==
    /\ sc_pc = "iter"
    /\ sc_pos > Len(sc_items)
    /\ sc_pc' = "report"
    /\ UNCHANGED <<sc_dir, sc_open, sc_items, sc_show_all, sc_pos, sc_entries,
                   sc_errors, sc_reported, sc_stderr, sc_result>>
    /\ UNCHANGED ScanFrame

\* One turn of `for error in errors { eprintln!("ls: {error}") }`.
ScanReport ==
    /\ sc_pc = "report"
    /\ sc_reported < Len(sc_errors)
    /\ sc_reported' = sc_reported + 1
    /\ sc_stderr' = Append(sc_stderr, [prefix |-> "ls: ", error |-> sc_errors[sc_reported + 1]])
    /\ UNCHANGED <<sc_dir, sc_open, sc_items, sc_show_all, sc_pc, sc_pos, sc_entries,
                   sc_errors, sc_result>>
    /\ UNCHANGED ScanFrame

\* `Ok(entries)`
ScanReturn ==
    /\ sc_pc = "report"
    /\ sc_reported = Len(sc_errors)
    /\ sc_pc' = "returned"
    /\ sc_result' = [tag |-> "Ok", entries |-> sc_entries]
    /\ UNCHANGED <<sc_dir, sc_open, sc_items, sc_show_all, sc_pos, sc_entries,
                   sc_errors, sc_reported, sc_stderr>>
    /\ UNCHANGED ScanFrame


\* -------------------------------------------------------------- the binary

\* Longest list of root paths, and longest listing of a directory, drawn
\* for a run of the binary.
MaxPaths == 2
MaxRunEntries == 2

\* The root paths asked for: two directories, a regular file, a path that
\* does not exist.
RunPaths == { <<"d">>, <<"e">>, <<"f">>, <<"n">> }

\* What the read_dir iterator yields in a run: readable entries (a file, a
\* directory, a hidden file), entries whose metadata cannot be read, and a
\* failing item.
RunItems ==
    { [ok |-> TRUE, file_name |-> <<"a">>, md_ok |-> TRUE, metadata |-> RegularMeta,
       error |-> NoError],
      [ok |-> TRUE, file_name |-> <<"B">>, md_ok |-> TRUE, metadata |-> DirMeta,
       error |-> NoError],
      [ok |-> TRUE, file_name |-> <<".", "h">>, md_ok |-> TRUE, metadata |-> RegularMeta,
       error |-> NoError],
      [ok |-> TRUE, file_name |-> <<"a">>, md_ok |-> FALSE, metadata |-> NoMetadata,
       error |-> "EACCES"],
      [ok |-> TRUE, file_name |-> <<".", "h">>, md_ok |-> FALSE, metadata |-> NoMetadata,
       error |-> "EACCES"],
      [ok |-> FALSE, file_name |-> <<>>, md_ok |-> FALSE, metadata |-> NoMetadata,
       error |-> "ENOENT"] }

RunListings(n) ==
    UNION { { s \in [1..k -> RunItems] : NoRepeatedName(s) } : k \in 0..n }

DirNode(items) == [kind |-> "dir", items |-> items, metadata |-> DirMeta]
FileNode == [kind |-> "file", items |-> <<>>, metadata |-> RegularMeta]
MissingNode == [kind |-> "missing", items |-> <<>>, metadata |-> NoMetadata]

\* The file systems of a run: "d" and the working directory "." hold one
\* drawn listing, "e" another, "f" is a regular file, "n" does not exist.
FileSystems ==
    { [p \in RunPaths \cup { <<".">> } |->
            CASE p = <<"d">> -> DirNode(d)
              [] p = <<".">> -> DirNode(d)
              [] p = <<"e">> -> DirNode(e)
              [] p = <<"f">> -> FileNode
              [] p = <<"n">> -> MissingNode] :
        d \in RunListings(MaxRunEntries), e \in RunListings(1) }

PathLists == UNION { [1..k -> RunPaths] : k \in 0..MaxPaths }

\* The `paths` of run: "." when none was given.
paths_of(a) == IF a.paths = <<>> THEN << <<".">> >> ELSE a.paths

\* Path::is_file
is_file(node) == node.kind = "file"

\* main.rs FileInfo::from_path: fs::metadata of the path.
main_from_path(path, node) ==
    IF node.kind = "missing"
    THEN [ok |-> FALSE, info |-> [path |-> <<>>, metadata |-> NoMetadata], error |-> "ENOENT"]
    ELSE [ok |-> TRUE, info |-> [path |-> path, metadata |-> node.metadata], error |-> NoError]

RunIdle ==
    /\ args = [long |-> FALSE, all |-> FALSE, size |-> FALSE, human_readable |-> FALSE,
               paths |-> <<>>]
    /\ fs = <<>>
    /\ pc = "idle"
    /\ index = 0
    /\ stdout = <<>>
    /\ stderr = <<>>
    /\ run_result = "none"
    /\ exit_code = -1
    /\ block_start = <<>>

RunStart ==
    /\ args \in [long : BOOLEAN, all : BOOLEAN, size : BOOLEAN, human_readable : BOOLEAN,
                 paths : PathLists]
    /\ fs \in FileSystems
    /\ pc = "run"
    /\ index = 0
    /\ stdout = <<>>
    /\ stderr = <<>>
    /\ run_result = "none"
    /\ exit_code = -1
    /\ block_start = <<>>

\* The lines of a directory's listing: the entries collected, sorted by
\* lower-cased name, one line each (main.rs:143-150).
listing_lines(entries, a) ==
    LET sorted == sort_by(entries, [kind |-> "run"])
    IN  [k \in 1..Len(sorted) |-> main_display(sorted[k], a)]

\* One turn of the loop of `run` (main.rs:130-152).
RunPath ==
    /\ pc = "run"
    /\ index < Len(paths_of(args))
    /\ LET paths == paths_of(args)
           path == paths[index + 1]
           node == fs[path]
           out == stdout \o path_preamble(paths, index)
           got == main_collect_entries(path, node, args.all)
           one == main_from_path(path, node)
       IN  /\ block_start' = Append(block_start, Len(stdout))
           /\ IF is_file(node)
              THEN IF one.ok
                   THEN /\ stdout' = Append(out, main_display(one.info, args))
                        /\ index' = index + 1
                        /\ UNCHANGED <<pc, run_result>>
                   ELSE /\ stdout' = out
                        /\ pc' = "main"
                        /\ run_result' = one.error
                        /\ UNCHANGED index
              ELSE IF got.ok
                   THEN /\ stdout' = out \o listing_lines(got.entries, args)
                        /\ index' = index + 1
                        /\ UNCHANGED <<pc, run_result>>
                   ELSE /\ stdout' = out
                        /\ pc' = "main"
                        /\ run_result' = got.error
                        /\ UNCHANGED index
    /\ UNCHANGED <<args, fs, stderr, exit_code>>
    /\ UNCHANGED RunFrame

\* The loop is over: `Ok(())`.
RunReturn ==
    /\ pc = "run"
    /\ index = Len(paths_of(args))
    /\ pc' = "main"
    /\ run_result' = "Ok"
    /\ UNCHANGED <<args, fs, index, stdout, stderr, exit_code, block_start>>
    /\ UNCHANGED RunFrame

\* main (main.rs:111-118): an Err of `run` is printed and the process exits
\* with status 1; otherwise main returns and the status is 0.
MainExit ==
    /\ pc = "main"
    /\ pc' = "exited"
    /\ IF run_result = "Ok"
       THEN /\ exit_code' = 0
            /\ UNCHANGED stderr
       ELSE /\ exit_code' = 1
            /\ stderr' = Append(stderr, [prefix |-> "Error: ", error |-> run_result])
    /\ UNCHANGED <<args, fs, index, stdout, run_result, block_start>>
    /\ UNCHANGED RunFrame


\* ---------------------------------------------------------- sorting a slice

\* Longest slice sorted, and how often sort_entries is applied to it.
MaxSortLen == 3
MaxSorts == 2

\* Base names of the entries sorted: pairs that differ only by case.
SortNames == { <<"a">>, <<"A">>, <<"b">>, <<"B">>, <<"a", "B">> }

\* Modification times of the entries sorted, in seconds from the epoch
\* start; FALSE marks a time the platform cannot give.
SortTimes == { [ok |-> TRUE, t |-> -60], [ok |-> TRUE, t |-> 0], [ok |-> TRUE, t |-> 60],
               [ok |-> FALSE, t |-> 0] }

SortInfos ==
    { [path |-> PathJoin(<<"d">>, n), file_name |-> n,
       metadata |-> Meta("file", 420, 13, 8, 1, 1000, m.ok, m.t)] :
        n \in SortNames, m \in SortTimes }

DistinctNames(s) == \A i, j \in 1..Len(s) : i /= j => s[i].file_name /= s[j].file_name

SortInputs == UNION { { s \in [1..k -> SortInfos] : DistinctNames(s) } : k \in 0..MaxSortLen }

SortIdle ==
    /\ so_input = <<>>
    /\ so_config = [by_time |-> FALSE, reverse |-> FALSE]
    /\ so_entries = <<>>
    /\ so_prev = <<>>
    /\ so_runs = -1

SortStart ==
    /\ so_input \in SortInputs
    /\ so_config \in [by_time : BOOLEAN, reverse : BOOLEAN]
    /\ so_entries = so_input
    /\ so_prev = so_input
    /\ so_runs = 0

\* sorting::sort_entries(&mut entries, &config)
SortEntries ==
    /\ so_runs >= 0
    /\ so_runs < MaxSorts
    /\ so_prev' = so_entries
    /\ so_entries' = sort_entries(so_entries, so_config)
    /\ so_runs' = so_runs + 1
    /\ UNCHANGED <<so_input, so_config>>
    /\ UNCHANGED SortFrame

\* ------------------------------------------------------- rendering a record

\* The base names rendered and the directory they live in.
RenderNames == { <<"l">>, <<".", "s">> }
RenderDir == <<"d">>

\* The objects a path can name: regular files (one of them sparse, with fewer
\* blocks than its size), a directory, a device, and
\* symbolic links whose target exists or not; or nothing.
RenderObjects ==
    { FsObject(TRUE, RegularMeta, <<>>, FALSE),
      FsObject(TRUE, Meta("file", 493, 5000, 16, 2, 0, FALSE, 0), <<>>, FALSE),
      FsObject(TRUE, Meta("file", 420, 2048, 3, 1, 1000, TRUE, 60), <<>>, FALSE),
      FsObject(TRUE, DirMeta, <<>>, FALSE),
      FsObject(TRUE, Meta("other", 432, 0, 0, 1, 0, TRUE, 3600), <<>>, FALSE),
      FsObject(TRUE, SymlinkMeta, <<"t">>, TRUE),
      FsObject(TRUE, SymlinkMeta, <<"t">>, FALSE),
      FsObject(TRUE, SymlinkMeta, <<".", ".", "/", "u">>, TRUE),
      FsObject(FALSE, NoMetadata, <<>>, FALSE) }

RenderIdle ==
    /\ rd_path = <<>>
    /\ rd_origin = "none"
    /\ rd_obj = FsObject(FALSE, NoMetadata, <<>>, FALSE)
    /\ rd_built_obj = FsObject(FALSE, NoMetadata, <<>>, FALSE)
    /\ rd_info = NoInfo
    /\ rd_opts = [format |-> "Name", human_readable |-> FALSE]
    /\ rd_line = <<>>
    /\ rd_pc = "idle"

RenderStart ==
    /\ rd_path \in { PathJoin(RenderDir, n) : n \in RenderNames }
    /\ rd_origin \in {"scan", "root"}
    /\ rd_obj \in RenderObjects
    /\ rd_built_obj = rd_obj
    /\ rd_info = NoInfo
    /\ rd_opts \in [format : {"Name", "WithSize", "Long"}, human_readable : BOOLEAN]
    /\ rd_line = <<>>
    /\ rd_pc = "new"

\* The directory scan constructs the record: FileInfo::from_entry.
FromEntry ==
    /\ rd_pc = "new"
    /\ rd_origin = "scan"
    /\ LET made == from_entry(RenderDir, ItemOf(BaseName(rd_path), rd_obj))
       IN  /\ rd_info' = made.info
           /\ rd_pc' = IF made.ok THEN "built" ELSE "failed"
    /\ rd_built_obj' = rd_obj
    /\ UNCHANGED <<rd_path, rd_origin, rd_obj, rd_opts, rd_line>>
    /\ UNCHANGED RenderFrame

\* A single root path constructs the record: FileInfo::from_path.
FromPath ==
    /\ rd_pc = "new"
    /\ rd_origin = "root"
    /\ LET made == from_path(rd_path, rd_obj)
       IN  /\ rd_info' = made.info
           /\ rd_pc' = IF made.ok THEN "built" ELSE "failed"
    /\ rd_built_obj' = rd_obj
    /\ UNCHANGED <<rd_path, rd_origin, rd_obj, rd_opts, rd_line>>
    /\ UNCHANGED RenderFrame

\* Another process changes, replaces or removes the object between the
\* construction of the record and its rendering.
Mutate ==
    /\ rd_pc = "built"
    /\ rd_obj = rd_built_obj
    /\ \E o \in RenderObjects :
        /\ o /= rd_obj
        /\ rd_obj' = o
    /\ UNCHANGED <<rd_path, rd_origin, rd_built_obj, rd_info, rd_opts, rd_line, rd_pc>>
    /\ UNCHANGED RenderFrame

\* The record is rendered: `format!("{}", FileInfoFormatter { .. })`.
Render ==
    /\ rd_pc = "built"
    /\ rd_line' = formatter_fmt(rd_info, rd_opts.format, rd_opts.human_readable, rd_obj)
    /\ rd_pc' = "rendered"
    /\ UNCHANGED <<rd_path, rd_origin, rd_obj, rd_built_obj, rd_info, rd_opts>>
    /\ UNCHANGED RenderFrame

\* ------------------------------------------------------ human-readable sizes

\* The byte counts formatted are m * 1024^e for every m up to MaxMant, and
\* for the mantissas of MoreMants, with e up to MaxExp, as far as they fit
\* in a u64, and the plain byte counts of LargeBytes.
MaxMant == 2047
MaxExp == 6

MoreMants == { 9999, 10188, 10189, 10239, 10240, 10241, 102400, 1047552, 1048063,
               1048064, 1048575 }

FitsU64(v) ==
    \/ v.e <= 4
    \/ v.e = 5 /\ v.m < 16384
    \/ v.e = 6 /\ v.m < 16

\* Byte counts from 1 MiB to 2 GiB given as they are, around the unit steps
\* and the rounding steps.
LargeBytes == { 1048576, 10433331, 10480517, 10485760, 123456789, 200000000,
                1073741823, 1073741824, 1127428915, 1127428916, 1610612736,
                2147483647 }

HumanSizes ==
    { v \in [m : (0..MaxMant) \cup MoreMants, e : 0..MaxExp] :
        FitsU64(v) /\ (v.m = 0 => v.e = 0) }
    \cup { Bytes(n) : n \in LargeBytes }

HumanIdle ==
    /\ h_size = Bytes(0)
    /\ h_out = <<>>
    /\ h_pc = "idle"

HumanStart ==
    /\ h_size \in HumanSizes
    /\ h_out = <<>>
    /\ h_pc = "call"

\* utils::format_size_human(size)
FormatSizeHuman ==
    /\ h_pc = "call"
    /\ h_out' = format_size_human(h_size)
    /\ h_pc' = "returned"
    /\ UNCHANGED h_size
    /\ UNCHANGED HumanFrame

\* ------------------------------------------------------- permission strings

\* The modes formatted: every value of the low twelve bits (the nine
\* permission bits with set-uid, set-gid and sticky above them), below the
\* file type bits that st_mode carries.
MaxMode == 4095

\* S_IFREG, S_IFDIR, S_IFLNK, S_IFSOCK
TypeBits(ftype) ==
    IF ftype = "dir" THEN 16384
    ELSE IF ftype = "symlink" THEN 40960
    ELSE IF ftype = "file" THEN 32768
    ELSE 49152

PermMetadata ==
    { Meta(t, TypeBits(t) + p, 0, 0, 1, 0, TRUE, 0) : t \in FileTypes, p \in 0..MaxMode }

PermIdle ==
    /\ p_meta = NoMetadata
    /\ p_out = <<>>
    /\ p_pc = "idle"

PermStart ==
    /\ p_meta \in PermMetadata
    /\ p_out = <<>>
    /\ p_pc = "call"

\* utils::format_permissions(metadata)
FormatPermissions ==
    /\ p_pc = "call"
    /\ p_out' = format_permissions(p_meta)
    /\ p_pc' = "returned"
    /\ UNCHANGED p_meta
    /\ UNCHANGED PermFrame

\* -------------------------------------------------------- recursive listing

\* Longest listing of the root directory, and the deepest nesting of calls
\* the walk is followed to.
MaxWalkEntries == 3
MaxWalkDepth == 4

\* FileInfo::is_hidden
is_hidden(info) == starts_with(info.file_name, ".")

\* FileInfo::is_dir
is_dir(info) == info.metadata.ftype = "dir"

\* directory::get_subdirectories
get_subdirectories(entries) == SelectSeq(entries, LAMBDA f : is_dir(f) /\ ~is_hidden(f))

\* The loop of directory::collect_entries over the items of read_dir: the
\* entries it returns.
RECURSIVE collect_loop(_, _, _)
collect_loop(dir, items, show_all) ==
    IF items = <<>> THEN <<>>
    ELSE LET item == Head(items)
             rest == collect_loop(dir, Tail(items), show_all)
         IN  IF ~item.ok THEN rest
             ELSE IF skips_hidden(show_all, item.file_name) THEN rest
             ELSE IF from_entry(dir, item).ok THEN <<from_entry(dir, item).info>> \o rest
             ELSE rest

\* directory::collect_entries on a directory that opens.
collect_entries(dir, items, show_all) == collect_loop(dir, items, show_all)

\* The root of the tree walked.
WalkRoot == <<"r">>

\* What lies under a name: a file, a directory, a symlink to the root of the
\* tree (an ancestor), or a symlink in a cycle of symlinks.
WalkKinds == { "file", "dir", "link_up", "link_loop" }

\* The item read_dir yields for a name: entry.metadata() does not follow a
\* link (`metadata`); `followed` is what following it would answer.
WalkItem(name, kind, mtime) ==
    [ok |-> TRUE, file_name |-> name, md_ok |-> TRUE, error |-> NoError, kind |-> kind,
     metadata |->
        IF kind = "dir" THEN [DirMeta EXCEPT !.mtime = mtime]
        ELSE IF kind = "file" THEN [RegularMeta EXCEPT !.mtime = mtime]
        ELSE [SymlinkMeta EXCEPT !.mtime = mtime],
     followed |->
        IF kind \in {"dir", "link_up"} THEN [ok |-> TRUE, metadata |-> [DirMeta EXCEPT !.mtime = mtime]]
        ELSE IF kind = "file" THEN [ok |-> TRUE, metadata |-> [RegularMeta EXCEPT !.mtime = mtime]]
        ELSE [ok |-> FALSE, metadata |-> NoMetadata]]

WalkNames == { <<"B">>, <<"a">>, <<".", "b">> }

\* The modification time of what lies under a name: newest '.b', oldest 'a'.
WalkTime(name) == IF name = <<"a">> THEN 0 ELSE IF name = <<"B">> THEN 60 ELSE 120

WalkItems == { WalkItem(n, k, WalkTime(n)) : n \in WalkNames, k \in WalkKinds }

\* The listings of the root: up to MaxWalkEntries items, no name twice, in
\* any order.
WalkListings ==
    UNION { { s \in [1..k -> WalkItems] : NoRepeatedName(s) } : k \in 0..MaxWalkEntries }

\* The listings of the directories below the root (every one of them holds
\* the same), whose own subdirectories are empty.
WalkSubListings ==
    { <<>>,
      <<WalkItem(<<"b">>, "dir", 0)>>,
      <<WalkItem(<<"A">>, "link_up", 0)>>,
      <<WalkItem(<<"b">>, "dir", 60), WalkItem(<<"A">>, "link_up", 0)>>,
      <<WalkItem(<<"b">>, "link_loop", 0), WalkItem(<<"A">>, "file", 60)>> }

\* The names of the directories from the filesystem root down to the working
\* directory, which holds the root of the tree.
WorkDir == << <<"w">> >>

\* The directories a path can lead to: the working directory (level 0), the
\* root of the tree (level 1), the directories below it (level 2) and theirs
\* (level 3), which are empty; above the working directory its ancestors
\* (level -1 its parent) up to the filesystem root (TopLevel). NoLevel is no
\* directory.
TopLevel == 0 - Len(WorkDir)
NoLevel == TopLevel - 1

\* What a directory holds; of an ancestor of the working directory, the
\* directory on the way down to it.
LevelListing(tree, level) ==
    IF level < 0 THEN <<WalkItem(WorkDir[level - TopLevel + 1], "dir", 0)>>
    ELSE IF level = 0 THEN <<WalkItem(WalkRoot, "dir", 0)>>
    ELSE IF level = 1 THEN tree.root
    ELSE IF level = 2 THEN tree.sub
    ELSE <<>>

\* The level of the directory the components lead to from a level, as the
\* system resolves a path it opens: "." stays, ".." is the parent (of the
\* filesystem root, the root itself), a symlink is followed; NoLevel when
\* they lead to no directory.
RECURSIVE ResolveLevel(_, _, _)
ResolveLevel(tree, comps, level) ==
    IF level = NoLevel THEN NoLevel
    ELSE IF comps = <<>> THEN level
    ELSE IF Head(comps) = <<".">> THEN ResolveLevel(tree, Tail(comps), level)
    ELSE IF Head(comps) = <<".", ".">>
    THEN ResolveLevel(tree, Tail(comps), IF level = TopLevel THEN level ELSE level - 1)
    ELSE LET listing == LevelListing(tree, level)
             hits == { i \in 1..Len(listing) : listing[i].file_name = Head(comps) }
         IN  IF hits = {} THEN NoLevel
             ELSE LET item == listing[CHOOSE i \in hits : TRUE]
                  IN  IF item.kind = "dir" THEN ResolveLevel(tree, Tail(comps), level + 1)
                      ELSE IF item.kind = "link_up" THEN ResolveLevel(tree, Tail(comps), 1)
                      ELSE NoLevel

\* The level a path leads to: an absolute path is taken from the filesystem
\* root, any other from the working directory; the empty path leads nowhere.
PathLevel(tree, path) ==
    IF path = <<>> THEN NoLevel
    ELSE IF starts_with(path, "/") THEN ResolveLevel(tree, Tail(Components(path)), TopLevel)
    ELSE ResolveLevel(tree, Components(path), 0)

\* fs::read_dir(path) in the tree walked.
walk_read_dir(tree, path) ==
    LET level == PathLevel(tree, path)
    IN  IF level = NoLevel THEN [ok |-> FALSE, items |-> <<>>]
        ELSE [ok |-> TRUE, items |-> LevelListing(tree, level)]

\* The names of the entries, one line each (Name format).
NameLines(entries) == [i \in 1..Len(entries) |-> entries[i].file_name]

NoCall == [path |-> <<>>, entries |-> <<>>, descents |-> <<>>]

WalkIdle ==
    /\ w_fs = [root |-> <<>>, sub |-> <<>>]
    /\ w_config = [by_time |-> FALSE, reverse |-> FALSE]
    /\ w_show_all = FALSE
    /\ w_stack = <<>>
    /\ w_stdout = <<>>
    /\ w_last = NoCall
    /\ w_pc = "idle"

\* A run with recursion enabled on the root of the tree, at depth 0.
WalkStart ==
    /\ w_fs \in [root : WalkListings, sub : WalkSubListings]
    /\ w_config \in [by_time : BOOLEAN, reverse : BOOLEAN]
    /\ w_show_all \in BOOLEAN
    /\ w_stack = <<[path |-> WalkRoot, depth |-> 0, state |-> "enter",
                    entries |-> <<>>, pending |-> <<>>, descents |-> <<>>]>>
    /\ w_stdout = <<>>
    /\ w_last = NoCall
    /\ w_pc = "walk"

\* The entries of one directory as its listing shows them: collected, then
\* sorted under the Sort Configuration.
listed_entries(tree, path, show_all, config) ==
    sort_entries(collect_entries(path, walk_read_dir(tree, path).items, show_all), config)

\* The listing of one directory: the header below depth 0, the entries
\* collected and sorted, one line each; the subdirectories to recurse into
\* are get_subdirectories of the entries, ordered by sort_directories.
WalkList ==
    /\ w_pc = "walk"
    /\ w_stack /= <<>>
    /\ w_stack[Len(w_stack)].state = "enter"
    /\ \E entries \in { listed_entries(w_fs, w_stack[Len(w_stack)].path, w_show_all, w_config) } :
        LET top == w_stack[Len(w_stack)]
            header == IF top.depth > 0 THEN <<top.path \o <<":">>>> ELSE <<>>
        IN  /\ w_stdout' = w_stdout \o header \o NameLines(entries)
            /\ w_stack' = [w_stack EXCEPT ![Len(w_stack)] =
                            [top EXCEPT !.state = "listed",
                                        !.entries = entries,
                                        !.pending = sort_directories(get_subdirectories(entries))]]
    /\ UNCHANGED <<w_fs, w_config, w_show_all, w_last, w_pc>>
    /\ UNCHANGED WalkFrame

\* The recursion into the next subdirectory: a blank line, then its listing
\* one level deeper.
WalkDescend ==
    /\ w_pc = "walk"
    /\ w_stack /= <<>>
    /\ Len(w_stack) < MaxWalkDepth
    /\ LET top == w_stack[Len(w_stack)]
       IN  /\ top.state = "listed"
           /\ top.pending /= <<>>
           /\ w_stdout' = Append(w_stdout, <<>>)
           /\ w_stack' =
                Append([w_stack EXCEPT ![Len(w_stack)] =
                            [top EXCEPT !.pending = Tail(top.pending),
                                        !.descents = Append(top.descents, Head(top.pending).path)]],
                       [path |-> Head(top.pending).path, depth |-> top.depth + 1,
                        state |-> "enter", entries |-> <<>>, pending |-> <<>>,
                        descents |-> <<>>])
    /\ UNCHANGED <<w_fs, w_config, w_show_all, w_last, w_pc>>
    /\ UNCHANGED WalkFrame

\* The return of a listing that has no subdirectory left.
WalkReturn ==
    /\ w_pc = "walk"
    /\ w_stack /= <<>>
    /\ LET top == w_stack[Len(w_stack)]
       IN  /\ top.state = "listed"
           /\ top.pending = <<>>
           /\ w_last' = [path |-> top.path, entries |-> top.entries, descents |-> top.descents]
           /\ w_stack' = SubSeq(w_stack, 1, Len(w_stack) - 1)
           /\ w_pc' = IF Len(w_stack) = 1 THEN "done" ELSE "walk"
    /\ UNCHANGED <<w_fs, w_config, w_show_all, w_stdout>>
    /\ UNCHANGED WalkFrame

\* --------------------------------------------------------- Long format lines

\* The attributes the records rendered in Long format are drawn from: link
\* counts and sizes narrower and wider than their columns, names with a
\* space, with the text of the symlink arrow in them and ending in a part
\* of it, and owners known by name, by a name of two words and by number.
LongLinkCounts == { 1, 2, 12, 1000 }
LongSizes == { 0, 13, 5000, 123456789 }
LongNames ==
    { <<"a">>, <<"a", " ", "b">>, <<" ", "a">>, <<"a", " ", "-", ">", " ", "b">>,
      <<"a", " ", "-", ">">>, <<"a", " ", "-">>, <<"a", " ">> }
LongTargets == { <<"t">>, <<"b", " ", "-", ">", " ", "t">>, <<">", " ", "t">> }
LongIds == { 0, 513, 1000 }

LongObjects ==
    { FsObject(TRUE, Meta(t, 420, len, 8, n, uid, TRUE, 60), <<>>, FALSE) :
        t \in FileTypes \ {"symlink"}, len \in LongSizes, n \in LongLinkCounts,
        uid \in LongIds }
    \cup
    { FsObject(TRUE, Meta("symlink", 511, len, 0, n, uid, TRUE, 60), target, TRUE) :
        len \in LongSizes, n \in LongLinkCounts, uid \in LongIds, target \in LongTargets }

LongIdle ==
    /\ l_name = <<>>
    /\ l_obj = FsObject(FALSE, NoMetadata, <<>>, FALSE)
    /\ l_info = NoInfo
    /\ l_line = <<>>
    /\ l_pc = "idle"

LongStart ==
    /\ l_name \in LongNames
    /\ l_obj \in LongObjects
    /\ l_info = NoInfo
    /\ l_line = <<>>
    /\ l_pc = "new"

\* The directory scan constructs the record: FileInfo::from_entry.
LongFromEntry ==
    /\ l_pc = "new"
    /\ l_info' = from_entry(RenderDir, ItemOf(l_name, l_obj)).info
    /\ l_pc' = "built"
    /\ UNCHANGED <<l_name, l_obj, l_line>>
    /\ UNCHANGED LongFrame

\* FileInfoFormatter::format_long without human-readable sizes.
LongRender ==
    /\ l_pc = "built"
    /\ l_line' = formatter_fmt(l_info, "Long", FALSE, l_obj)
    /\ l_pc' = "rendered"
    /\ UNCHANGED <<l_name, l_obj, l_info>>
    /\ UNCHANGED LongFrame

\* ---------------------------------------------------------- specifications

Init == RunStart /\ ScanIdle /\ SortIdle /\ RenderIdle /\ HumanIdle /\ PermIdle /\ WalkIdle /\ LongIdle

Next == RunPath \/ RunReturn \/ MainExit

\* The binary, run on every drawn command line and file system.
Spec == Init /\ [][Next]_vars

ScanInit == ScanStart /\ RunIdle /\ SortIdle /\ RenderIdle /\ HumanIdle /\ PermIdle /\ WalkIdle /\ LongIdle

ScanNext == ScanOpen \/ ScanEntry \/ ScanEnd \/ ScanReport \/ ScanReturn

\* directory::collect_entries run on every drawn directory.
SpecScan == ScanInit /\ [][ScanNext]_vars

SortInit == SortStart /\ ScanIdle /\ RunIdle /\ RenderIdle /\ HumanIdle /\ PermIdle /\ WalkIdle /\ LongIdle

SortNext == SortEntries

\* sorting::sort_entries run once and again on every drawn slice.
SpecSort == SortInit /\ [][SortNext]_vars

RenderInit == RenderStart /\ ScanIdle /\ RunIdle /\ SortIdle /\ HumanIdle /\ PermIdle /\ WalkIdle /\ LongIdle

RenderNext == FromEntry \/ FromPath \/ Mutate \/ Render

\* A record constructed from every drawn object, and rendered.
SpecRender == RenderInit /\ [][RenderNext]_vars

HumanInit == HumanStart /\ ScanIdle /\ RunIdle /\ SortIdle /\ RenderIdle /\ PermIdle /\ WalkIdle /\ LongIdle

HumanNext == FormatSizeHuman

\* utils::format_size_human applied to every drawn byte count.
SpecHuman == HumanInit /\ [][HumanNext]_vars

PermInit == PermStart /\ ScanIdle /\ RunIdle /\ SortIdle /\ RenderIdle /\ HumanIdle /\ WalkIdle /\ LongIdle

PermNext == FormatPermissions

\* utils::format_permissions applied to every drawn mode and file type.
SpecPerm == PermInit /\ [][PermNext]_vars

WalkInit == WalkStart /\ ScanIdle /\ RunIdle /\ SortIdle /\ RenderIdle /\ HumanIdle /\ PermIdle /\ LongIdle

WalkNext == WalkList \/ WalkDescend \/ WalkReturn

\* The recursive listing of every drawn tree.
SpecWalk == WalkInit /\ [][WalkNext]_vars

\* A directory is waiting to be listed: what enables WalkList.
WalkListReady == w_pc = "walk" /\ w_stack /= <<>> /\ w_stack[Len(w_stack)].state = "enter"

\* The same, every step of the single thread being taken while one remains:
\* weak fairness of the descent and the return, and of the listing, whose
\* weak fairness is spelled out with its enabling condition.
SpecWalkFair ==
    /\ SpecWalk
    /\ WF_walk_vars(WalkDescend \/ WalkReturn)
    /\ ([]<>(~WalkListReady) \/ []<><<WalkList>>_walk_vars)

LongInit ==
    LongStart /\ ScanIdle /\ RunIdle /\ SortIdle /\ RenderIdle /\ HumanIdle /\ PermIdle /\ WalkIdle

LongNext == LongFromEntry \/ LongRender

\* Records of every drawn type, link count, size and name, rendered in Long
\* format.
SpecLong == LongInit /\ [][LongNext]_vars

\* ------------------------------------------------------------------ C1

\* The items of the scan whose entry and metadata can both be read.
Readable(item) == item.ok /\ item.md_ok

ReturnedNames == { sc_result.entries[j].file_name : j \in 1..Len(sc_result.entries) }

\* C1: a directory read that returns excludes a readable child if and only if
\* its base name starts with '.' and show_all is false; with show_all false no
\* returned entry is hidden, with show_all true every readable child is
\* returned, and nothing is returned that is not a readable child.
C1_HiddenFilter ==
    (sc_pc = "returned" /\ sc_result.tag = "Ok") =>
        /\ \A i \in 1..Len(sc_items) :
            Readable(sc_items[i]) =>
                ((sc_items[i].file_name \notin ReturnedNames)
                    <=> (starts_with(sc_items[i].file_name, ".") /\ ~sc_show_all))
        /\ \A j \in 1..Len(sc_result.entries) :
            \E i \in 1..Len(sc_items) :
                /\ Readable(sc_items[i])
                /\ sc_result.entries[j].file_name = sc_items[i].file_name
                /\ sc_result.entries[j].metadata = sc_items[i].metadata
        /\ (~sc_show_all =>
                \A j \in 1..Len(sc_result.entries) :
                    ~starts_with(sc_result.entries[j].file_name, "."))

\* A scan with both switches' cases: a hidden and a visible readable child,
\* returned with show_all set (both listed).
C1_Witness ==
    /\ sc_pc = "returned"
    /\ sc_result.tag = "Ok"
    /\ sc_show_all
    /\ \E i, k \in 1..Len(sc_items) :
        /\ Readable(sc_items[i]) /\ starts_with(sc_items[i].file_name, ".")
        /\ Readable(sc_items[k]) /\ ~starts_with(sc_items[k].file_name, ".")
        /\ sc_items[i].file_name \in ReturnedNames
        /\ sc_items[k].file_name \in ReturnedNames

\* ------------------------------------------------------------------ C2

\* A root path that is no file and cannot be read as a directory.
RootFails(path) == ~is_file(fs[path]) /\ ~read_dir(fs[path]).ok

\* A root directory that opens but holds an item the scan cannot read.
EntryFails(path) ==
    read_dir(fs[path]).ok /\ ~main_collect_entries(path, fs[path], args.all).ok

RootPathIndexes == 1..Len(paths_of(args))

\* C2 (as claimed): a run in which a requested root path does not exist or
\* cannot be read (and nothing else fails) writes an error message to the
\* error sink and still exits with status 0.
C2_MissingPathStillSucceeds ==
    (/\ pc = "exited"
     /\ \E i \in RootPathIndexes : RootFails(paths_of(args)[i])
     /\ \A i \in RootPathIndexes : ~EntryFails(paths_of(args)[i]))
        => (exit_code = 0 /\ stderr /= <<>>)

\* ------------------------------------------------------------------ C3

\* C3 (as claimed): when a root path fails (and no directory entry does),
\* the traversal still takes its turn for every root path of the list.
C3_TraversalContinues ==
    (/\ pc = "exited"
     /\ \E i \in RootPathIndexes : RootFails(paths_of(args)[i])
     /\ \A i \in RootPathIndexes : ~EntryFails(paths_of(args)[i]))
        => Len(block_start) = Len(paths_of(args))

\* ------------------------------------------------------------------ C4

\* C4 (as claimed): a failure to read one entry or its metadata never makes
\* the scan an error result: `run` returns Err only at a root path whose
\* directory could not be opened at all.
C4_EntryFailureDoesNotAbort ==
    (run_result \notin {"none", "Ok"}) => ~read_dir(fs[paths_of(args)[index + 1]]).ok

\* The same claim on directory::collect_entries: once the directory opens,
\* the result is Ok with every readable, unfiltered entry in scan order, and
\* nothing reaches the error sink before the last item was read.
C4_DirectoryReaderHolds ==
    /\ (sc_pc = "returned" /\ sc_open = "ok") =>
        /\ sc_result.tag = "Ok"
        /\ Len(sc_stderr) =
            Cardinality({ i \in 1..Len(sc_items) :
                ~sc_items[i].ok
                \/ (~sc_items[i].md_ok
                    /\ ~skips_hidden(sc_show_all, sc_items[i].file_name)) })
        /\ Len(sc_result.entries) =
            Cardinality({ i \in 1..Len(sc_items) :
                Readable(sc_items[i])
                /\ ~skips_hidden(sc_show_all, sc_items[i].file_name) })
    /\ (sc_stderr /= <<>> => sc_pos > Len(sc_items))

\* ------------------------------------------------------------------ C5

\* Where an entry of the input stands in the sorted slice.
PosIn(s, x) == CHOOSE k \in 1..Len(s) : s[k] = x

IsPermutation(s, t) ==
    /\ Len(s) = Len(t)
    /\ \A i \in 1..Len(s) : \E k \in 1..Len(t) : t[k] = s[i]

\* The lower-cased base name, the key of the sort by name.
LowerName(info) == to_lowercase(info.file_name)

\* C5: sorting by name (by_time = false, reverse = false) permutes the input
\* into an order in which no entry precedes one with a smaller lower-cased
\* name; entries with equal lower-cased names keep their input order; and a
\* second sort leaves the order of the first unchanged.
C5_NameSort ==
    (so_runs >= 1 /\ ~so_config.by_time /\ ~so_config.reverse) =>
        /\ IsPermutation(so_input, so_entries)
        /\ \A i, j \in 1..Len(so_entries) :
            i < j => cmp_str(LowerName(so_entries[i]), LowerName(so_entries[j])) /= "Greater"
        /\ \A i, j \in 1..Len(so_input) :
            (i < j /\ LowerName(so_input[i]) = LowerName(so_input[j]))
                => PosIn(so_entries, so_input[i]) < PosIn(so_entries, so_input[j])
        /\ (so_runs >= 2 => so_entries = so_prev)

\* Sorted twice by name: the input held 'B' before 'a', and two names that
\* differ only by case, and the sort changed the order.
C5_Witness ==
    /\ so_runs = 2
    /\ ~so_config.by_time /\ ~so_config.reverse
    /\ so_entries /= so_input
    /\ \E i, j \in 1..Len(so_input) :
        /\ i < j
        /\ so_input[i].file_name = <<"B">>
        /\ so_input[j].file_name = <<"a">>
    /\ \E i, j \in 1..Len(so_input) :
        /\ i /= j
        /\ LowerName(so_input[i]) = LowerName(so_input[j])

\* ------------------------------------------------------------------ C6

\* The time an entry is ordered by: the epoch start when unavailable.
EffectiveTime(info) == IF info.metadata.mtime_ok THEN info.metadata.mtime ELSE 0

\* C6: with by_time set the sorted slice is a permutation of the input in
\* which no entry precedes one with a later time (reverse = false) or with an
\* earlier time (reverse = true), an unavailable time counting as the epoch
\* start; entries with equal times keep their input order either way.
C6_TimeSort ==
    (so_runs >= 1 /\ so_config.by_time) =>
        /\ IsPermutation(so_input, so_entries)
        /\ \A i, j \in 1..Len(so_entries) :
            i < j =>
                IF so_config.reverse
                THEN EffectiveTime(so_entries[i]) <= EffectiveTime(so_entries[j])
                ELSE EffectiveTime(so_entries[i]) >= EffectiveTime(so_entries[j])
        /\ \A i, j \in 1..Len(so_input) :
            (i < j /\ EffectiveTime(so_input[i]) = EffectiveTime(so_input[j]))
                => PosIn(so_entries, so_input[i]) < PosIn(so_entries, so_input[j])

\* Sorted by time, reversed: the input held an entry with no time, one at
\* the epoch start and a later one before them, and the sort changed the order.
C6_Witness ==
    /\ so_runs >= 1
    /\ so_config.by_time /\ so_config.reverse
    /\ so_entries /= so_input
    /\ \E i, j, k \in 1..Len(so_input) :
        /\ k < i /\ i < j
        /\ so_input[k].metadata.mtime_ok /\ so_input[k].metadata.mtime > 0
        /\ ~so_input[i].metadata.mtime_ok
        /\ so_input[j].metadata.mtime_ok /\ so_input[j].metadata.mtime = 0

\* ------------------------------------------------------------------ C7

\* The last character of a line, "" for a blank line.
LastChar(line) == IF line = <<>> THEN "" ELSE line[Len(line)]

\* C7: with several root paths, the output of the first path starts with its
\* header line '<path>:' and the output of every later path starts with a
\* blank line followed by its header line; with exactly one root path no
\* blank line and no header line is printed.
C7_Headers ==
    LET paths == paths_of(args)
    IN  /\ Len(paths) > 1 =>
            \A i \in 1..Len(block_start) :
                LET s == block_start[i]
                IN  IF i = 1
                    THEN /\ s = 0
                         /\ Len(stdout) >= 1
                         /\ stdout[1] = paths[1] \o <<":">>
                    ELSE /\ Len(stdout) >= s + 2
                         /\ stdout[s + 1] = <<>>
                         /\ stdout[s + 2] = paths[i] \o <<":">>
        /\ Len(paths) = 1 =>
            \A k \in 1..Len(stdout) : stdout[k] /= <<>> /\ LastChar(stdout[k]) /= ":"

\* Two directories with entries, both listed, the run over.
C7_Witness ==
    /\ pc = "exited"
    /\ exit_code = 0
    /\ Len(paths_of(args)) = 2
    /\ Len(block_start) = 2
    /\ \A i \in 1..2 : fs[paths_of(args)[i]].kind = "dir"
    /\ block_start[2] >= 2
    /\ Len(stdout) >= block_start[2] + 3

\* ------------------------------------------------------------------ C8

\* The sum of the block counts of the entries, in 1024-byte units.
TotalBlocks(entries) ==
    LET RECURSIVE Sum(_)
        Sum(k) == IF k = 0 THEN 0 ELSE Sum(k - 1) + entries[k].metadata.blocks
    IN  (Sum(Len(entries)) * 512 + 1023) \div 1024

\* C8 (as claimed): in Long format the listing of every directory that was
\* listed starts, right after its preamble, with the line 'total N' for the
\* block total N of its listed entries; in Name format an empty directory
\* adds nothing to the output.
C8_TotalLine ==
    \A i \in 1..Len(block_start) :
        LET paths == paths_of(args)
            node == fs[paths[i]]
            got == main_collect_entries(paths[i], node, args.all)
            first == block_start[i] + Len(path_preamble(paths, i - 1)) + 1
            after == IF i < Len(block_start) THEN block_start[i + 1] ELSE Len(stdout)
        IN  (node.kind = "dir" /\ got.ok) =>
                /\ args.long =>
                    /\ after >= first
                    /\ stdout[first] = Total \o <<" ">> \o Digits(TotalBlocks(got.entries))
                    /\ after - first = Len(got.entries)
                /\ (~args.long /\ ~args.size /\ got.entries = <<>>) => after = first - 1

\* ------------------------------------------------------------------ C9

\* `line` ends with `tail`.
EndsWith(line, tail) ==
    /\ Len(line) >= Len(tail)
    /\ SubSeq(line, Len(line) - Len(tail) + 1, Len(line)) = tail

\* `part` occurs in `line`.
Contains(line, part) ==
    \E k \in 1..(Len(line) - Len(part) + 1) : SubSeq(line, k, k + Len(part) - 1) = part

IsSymlink(obj) == obj.exists /\ obj.metadata.ftype = "symlink"

\* C9: a record constructed, by a directory scan or from a root path, of an
\* object that is a symbolic link, rendered in Long format while the object
\* is a link, gives a line that ends in '<base name> -> <target path>',
\* whether the target exists or not; a record of an object that is no
\* symbolic link gives a line that ends in the base name and has no arrow.
C9_SymlinkArrow ==
    (rd_pc = "rendered" /\ rd_opts.format = "Long") =>
        /\ (IsSymlink(rd_built_obj) /\ IsSymlink(rd_obj)) =>
                EndsWith(rd_line, <<" ">> \o BaseName(rd_path) \o Arrow \o rd_obj.target)
        /\ ~IsSymlink(rd_built_obj) =>
                /\ EndsWith(rd_line, <<" ">> \o BaseName(rd_path))
                /\ ~Contains(rd_line, Arrow)

\* A record of a link whose target does not exist, constructed from a root
\* path, rendered in Long format with the arrow and the raw target.
C9_Witness ==
    /\ rd_pc = "rendered"
    /\ rd_opts.format = "Long"
    /\ rd_origin = "root"
    /\ IsSymlink(rd_built_obj)
    /\ rd_obj = rd_built_obj
    /\ ~rd_obj.target_exists
    /\ EndsWith(rd_line, BaseName(rd_path) \o Arrow \o <<"t">>)

\* ------------------------------------------------------------------ C10

\* A text without its leading spaces.
RECURSIVE TrimLeft(_)
TrimLeft(t) == IF t /= <<>> /\ Head(t) = " " THEN TrimLeft(Tail(t)) ELSE t

IsDigit(c) == c \in {"0", "1", "2", "3", "4", "5", "6", "7", "8", "9"}

\* The number a text of decimal digits reads as.
DigitValue(c) == CHOOSE d \in 0..9 : DigitChar(d) = c
RECURSIVE DecimalValue(_)
DecimalValue(t) ==
    IF t = <<>> THEN 0 ELSE 10 * DecimalValue(SubSeq(t, 1, Len(t) - 1)) + DigitValue(t[Len(t)])

\* The byte count is below 1024.
Below1024(v) == v.m = 0 \/ (v.e = 0 /\ v.m < 1024)

\* How often m >= 1 (m < 2^31) can be divided by 1024 before it is below 1024.
Scale(m) ==
    IF m < 1024 THEN 0
    ELSE IF m < 1048576 THEN 1
    ELSE IF m < 1073741824 THEN 2
    ELSE 3

\* How often a byte count m * 1024^e of at least 1024 can be divided by 1024
\* before it is below 1024, at most 5 times.
Divisions(v) ==
    LET k == v.e + Scale(v.m)
    IN  IF k > 5 THEN 5 ELSE k

\* The byte count divided by 1024 Divisions times is below 10.
ScaledBelow10(v) ==
    /\ v.e + Scale(v.m) <= 5
    /\ (v.m \div (1024 ^ Scale(v.m))) < 10

UnitLetters == <<"K", "M", "G", "T", "P">>

\* The number in front of the unit letter.
NumberPart(t) == SubSeq(TrimLeft(t), 1, Len(TrimLeft(t)) - 1)

\* C10: a byte count below 1024 is printed as its decimal digits with no
\* unit letter (13 as '13', 1023 as '1023', after the padding), and a smaller
\* byte count prints a smaller number; a byte count of at least 1024 is
\* printed as a number followed by the unit letter of the divisions done
\* (1024 with K), the number with one decimal place when the scaled value
\* is below 10 and with none otherwise.
C10_HumanSize ==
    h_pc = "returned" =>
        IF Below1024(h_size)
        THEN /\ TrimLeft(h_out) = Digits(h_size.m)
             /\ \A c \in { h_out[k] : k \in 1..Len(h_out) } : IsDigit(c) \/ c = " "
             /\ DecimalValue(TrimLeft(h_out)) = h_size.m
             /\ \A t \in 0..(h_size.m - 1) :
                    DecimalValue(TrimLeft(format_size_human(Bytes(t))))
                        < DecimalValue(TrimLeft(h_out))
        ELSE /\ h_out[Len(h_out)] = UnitLetters[Divisions(h_size)]
             /\ LET n == NumberPart(h_out)
                IN  IF ScaledBelow10(h_size)
                    THEN /\ Len(n) >= 3
                         /\ n[Len(n) - 1] = "."
                         /\ \A k \in (1..Len(n)) \ {Len(n) - 1} : IsDigit(n[k])
                    ELSE \A k \in 1..Len(n) : IsDigit(n[k])

\* 1024 bytes came back as '1.0K'.
C10_Witness ==
    /\ h_pc = "returned"
    /\ h_size = Bytes(1024)
    /\ h_out = <<"1", ".", "0", "K">>

\* The examples of the claim and of the tests, as formatted.
C10_Examples ==
    /\ format_size_human(Bytes(13)) = <<" ", " ", "1", "3">>
    /\ format_size_human(Bytes(1023)) = <<"1", "0", "2", "3">>
    /\ format_size_human(Bytes(5000)) = <<"4", ".", "9", "K">>
    /\ format_size_human(Bytes(1280)) = <<"1", ".", "2", "K">>
    /\ format_size_human([m |-> 15, e |-> 6]) = <<"1", "5", "3", "6", "0", "P">>
    /\ format_size_human([m |-> 10240, e |-> 1]) = <<" ", "1", "0", "M">>

\* ------------------------------------------------------------------ C11

\* Bit k of a mode, read off the remainder.
ModeBit(mode, k) == (mode % (2 ^ (k + 1))) >= 2 ^ k

RwxLetters == <<"r", "w", "x", "r", "w", "x", "r", "w", "x">>

\* C11: the permission string has exactly 10 characters: 'd' for a
\* directory, 'l' for a symlink, '-' otherwise, then for the bits 8 down to
\* 0 of the mode the letter of 'rwxrwxrwx' at that position when the bit is
\* set and '-' when it is clear; the bits above the low 9 do not change it.
C11_PermissionString ==
    p_pc = "returned" =>
        /\ Len(p_out) = 10
        /\ p_out[1] = (IF p_meta.ftype = "dir" THEN "d"
                       ELSE IF p_meta.ftype = "symlink" THEN "l" ELSE "-")
        /\ \A i \in 1..9 :
            p_out[i + 1] = (IF ModeBit(p_meta.mode, 9 - i) THEN RwxLetters[i] ELSE "-")
        /\ p_out = format_permissions([p_meta EXCEPT !.mode = p_meta.mode % 512])

\* A set-uid directory of mode 0o4750 came back as 'drwxr-x---'.
C11_Witness ==
    /\ p_pc = "returned"
    /\ p_meta.ftype = "dir"
    /\ p_meta.mode = 16384 + 2048 + 488
    /\ p_out = <<"d", "r", "w", "x", "r", "-", "x", "-", "-", "-">>

\* ------------------------------------------------------------------ C12

\* a is before b in byte order.
RawLess(a, b) ==
    \E i \in 1..(Len(b)) :
        /\ \A k \in 1..(i - 1) : k <= Len(a) /\ a[k] = b[k]
        /\ (i > Len(a) \/ Code(a[i]) < Code(b[i]))

\* The calls of the walk whose descents can be looked at: those in progress
\* and the one that returned last.
WalkCalls ==
    { [path |-> w_stack[i].path, entries |-> w_stack[i].entries,
       descents |-> w_stack[i].descents] :
        i \in { k \in 1..Len(w_stack) : w_stack[k].state = "listed" } }
    \cup { w_last }

\* C12: under every Sort Configuration the subdirectories of a listed
\* directory are descended into in ascending byte order of their base
\* names, and once the listing returns the directories descended into are
\* exactly its listed entries that are directories with a name not starting
\* with '.'.
C12_RecursionOrder ==
    /\ \A c \in WalkCalls :
        \A i, k \in 1..Len(c.descents) :
            i < k => RawLess(BaseName(c.descents[i]), BaseName(c.descents[k]))
    /\ w_last /= NoCall =>
        { w_last.descents[i] : i \in 1..Len(w_last.descents) }
            = { PathJoin(w_last.path, w_last.entries[i].file_name) :
                    i \in { k \in 1..Len(w_last.entries) :
                                /\ w_last.entries[k].metadata.ftype = "dir"
                                /\ w_last.entries[k].file_name[1] /= "." } }

\* The root returned after descending into 'B' and then 'a', with the
\* listing sorted the other way round and a hidden directory passed over.
C12_Witness ==
    /\ w_pc = "done"
    /\ w_show_all
    /\ ~w_config.by_time /\ ~w_config.reverse
    /\ w_last.descents = <<PathJoin(WalkRoot, <<"B">>), PathJoin(WalkRoot, <<"a">>)>>
    /\ Len(w_last.entries) = 3
    /\ w_last.entries[1].file_name = <<".", "b">>
    /\ w_last.entries[1].metadata.ftype = "dir"
    /\ w_last.entries[2].file_name = <<"a">>

\* ------------------------------------------------------------------ C13

\* The first position from i on that holds no space, and the first that
\* holds one (one past the end when there is none).
RECURSIVE SkipSpaces(_, _)
SkipSpaces(t, i) == IF i <= Len(t) /\ t[i] = " " THEN SkipSpaces(t, i + 1) ELSE i

RECURSIVE TokenEnd(_, _)
TokenEnd(t, i) == IF i <= Len(t) /\ t[i] /= " " THEN TokenEnd(t, i + 1) ELSE i

\* The text in front of the first symlink arrow, the whole text without one.
BeforeArrow(t) ==
    LET at == { k \in 1..Len(t) : k + 3 <= Len(t) /\ SubSeq(t, k, k + 3) = Arrow }
    IN  IF at = {} THEN t
        ELSE SubSeq(t, 1, (CHOOSE k \in at : \A j \in at : k <= j) - 1)

\* The number a field reads as, -1 when it is not a text of decimal digits.
NumberRead(t) ==
    IF t /= <<>> /\ \A k \in 1..Len(t) : IsDigit(t[k]) THEN DecimalValue(t) ELSE -1

\* The fixed fields of a Long format line read back: the type character,
\* the link count, owner and group (skipped), the size, the 12 characters
\* of the date, and the name that is the rest of the line, up to the arrow
\* on the line of a symlink.
ParseLong(line) ==
    LET n1 == SkipSpaces(line, 12)
        e1 == TokenEnd(line, n1)
        e2 == TokenEnd(line, e1 + 1)
        e3 == TokenEnd(line, e2 + 1)
        n4 == SkipSpaces(line, e3 + 1)
        e4 == TokenEnd(line, n4)
        rest == SubSeq(line, e4 + 14, Len(line))
    IN  [type_tag |-> IF line[1] = "d" THEN "dir"
                      ELSE IF line[1] = "l" THEN "symlink" ELSE "file",
         nlink |-> NumberRead(SubSeq(line, n1, e1 - 1)),
         size |-> NumberRead(SubSeq(line, n4, e4 - 1)),
         name |-> IF line[1] = "l" THEN BeforeArrow(rest) ELSE rest]

\* C13 (as claimed): the fields read back from the Long format line of a
\* record are its type tag, link count, size and base name.
C13_RoundTrip ==
    l_pc = "rendered" =>
        /\ ParseLong(l_line).type_tag = l_info.metadata.ftype
        /\ ParseLong(l_line).nlink = l_info.metadata.nlink
        /\ ParseLong(l_line).size = l_info.metadata.len
        /\ ParseLong(l_line).name = l_info.file_name

\* Owner and group are printed as one word each.
OneWordIds(metadata) ==
    /\ ~Contains(owner_name(metadata.uid), <<" ">>)
    /\ ~Contains(owner_name(metadata.gid), <<" ">>)

\* The name followed by the arrow holds the text of the arrow before it:
\* the name holds ' -> ' or ends in ' ->'.
ArrowInName(name) == Contains(name \o <<" ">>, Arrow)

\* C13 (amended): the link count is read back exactly, and the type tag as
\* directory, symlink, or anything else (a regular file and an object of
\* another type both print '-'); when owner and group are printed as one
\* word each, the size is read back exactly, the base name of a record that
\* is no symlink is read back exactly, and the base name of a symlink is
\* read back exactly if and only if the name neither holds ' -> ' nor ends
\* in ' ->'.
C13_RoundTripAmended ==
    l_pc = "rendered" =>
        /\ ParseLong(l_line).type_tag =
            (IF l_info.metadata.ftype = "other" THEN "file" ELSE l_info.metadata.ftype)
        /\ ParseLong(l_line).nlink = l_info.metadata.nlink
        /\ OneWordIds(l_info.metadata) =>
            /\ ParseLong(l_line).size = l_info.metadata.len
            /\ l_info.metadata.ftype /= "symlink" => ParseLong(l_line).name = l_info.file_name
            /\ l_info.metadata.ftype = "symlink" =>
                    (ParseLong(l_line).name = l_info.file_name <=> ~ArrowInName(l_info.file_name))

\* The line of a symlink named 'a b' with 1000 links and a size of nine
\* digits was rendered, both columns overflowing their width.
C13_Witness ==
    /\ l_pc = "rendered"
    /\ l_info.metadata.ftype = "symlink"
    /\ l_info.file_name = <<"a", " ", "b">>
    /\ l_info.metadata.nlink = 1000
    /\ l_info.metadata.len = 123456789
    /\ OneWordIds(l_info.metadata)
    /\ ParseLong(l_line).name = <<"a", " ", "b">>
    /\ EndsWith(l_line, Arrow \o l_obj.target)

\* ------------------------------------------------------------------ C14

\* The least number of 1024-byte units that hold the blocks of 512 bytes.
KiBOfBlocks(blocks) == CHOOSE n \in 0..blocks : n * 1024 >= blocks * 512 /\ (n = 0 \/ (n - 1) * 1024 < blocks * 512)

\* C14: a WithSize line is the size token, one space and the base name;
\* without the human-readable switch the token is 8 characters wide and
\* holds, right-justified, the 1024-byte units of the record's block count
\* (rounded up); with the switch it is the human-readable form of the
\* record's byte size.
C14_WithSizeToken ==
    (rd_pc = "rendered" /\ rd_opts.format = "WithSize") =>
        LET md == rd_built_obj.metadata
            token == SubSeq(rd_line, 1, Len(rd_line) - Len(BaseName(rd_path)) - 1)
        IN  /\ EndsWith(rd_line, <<" ">> \o BaseName(rd_path))
            /\ ~rd_opts.human_readable =>
                    /\ Len(token) = 8
                    /\ TrimLeft(token) = Digits(KiBOfBlocks(md.blocks))
            /\ rd_opts.human_readable => token = format_size_human(Bytes(md.len))

\* A file of 5000 bytes in 16 blocks was rendered with the token 8, where
\* its byte size would have given 5.
C14_Witness ==
    /\ rd_pc = "rendered"
    /\ rd_opts.format = "WithSize"
    /\ ~rd_opts.human_readable
    /\ rd_built_obj.metadata.len = 5000
    /\ rd_built_obj.metadata.blocks = 16
    /\ SubSeq(rd_line, 1, 9) = <<" ", " ", " ", " ", " ", " ", " ", "8", " ">>

\* ------------------------------------------------------------------ C15

\* The lines a root path whose turn is over added to the output.
BlockOf(i) ==
    SubSeq(stdout, block_start[i] + 1,
           IF i < Len(block_start) THEN block_start[i + 1] ELSE Len(stdout))

\* C15 (as claimed): a root path that names a single file adds, apart from
\* an empty separator line, exactly one line to the output, and no line
\* '<path>:', whatever the number of root paths.
C15_SingleFileNoHeader ==
    \A i \in 1..Len(block_start) :
        LET path == paths_of(args)[i]
            block == BlockOf(i)
        IN  (is_file(fs[path]) /\ i <= index) =>
                /\ Cardinality({ k \in 1..Len(block) : block[k] /= <<>> }) = 1
                /\ \A k \in 1..Len(block) : block[k] /= path \o <<":">>

\* ------------------------------------------------------------------ C16

\* C16 (as claimed): the line rendered from a record is the line it would
\* have given when it was constructed, whatever happened to the object in
\* between.
C16_SnapshotRecord ==
    rd_pc = "rendered" =>
        rd_line = formatter_fmt(rd_info, rd_opts.format, rd_opts.human_readable, rd_built_obj)

\* What the code does keep: type character, permissions, link count, owner,
\* size and date of the line come from the metadata read at construction,
\* and so does the whole line of every record that is not a symlink and of
\* every line that is not in Long format.
C16_MetadataIsSnapshot ==
    rd_pc = "rendered" =>
        /\ (rd_opts.format /= "Long" \/ ~IsSymlink(rd_built_obj)) =>
            rd_line = formatter_fmt(rd_info, rd_opts.format, rd_opts.human_readable, rd_built_obj)
        /\ rd_info.metadata = rd_built_obj.metadata

\* ------------------------------------------------------------------ C17

\* The item of a directory's listing that a path below it names.
ItemNamed(dir, path) ==
    LET items == walk_read_dir(w_fs, dir).items
    IN  items[CHOOSE i \in 1..Len(items) : items[i].file_name = BaseName(path)]

\* No call of the walk was made through a symlink: every directory
\* descended into is a real directory of the listing, every symlink of a
\* listing that is not filtered out is among the entries as a symlink, and
\* the calls nest no deeper than the tree.
NoLinkDescent ==
    /\ \A c \in WalkCalls :
        /\ \A i \in 1..Len(c.descents) : ItemNamed(c.path, c.descents[i]).kind = "dir"
        /\ c /= NoCall =>
            LET items == walk_read_dir(w_fs, c.path).items
            IN  \A i \in 1..Len(items) :
                    (/\ items[i].kind \in {"link_up", "link_loop"}
                     /\ (w_show_all \/ items[i].file_name[1] /= "."))
                        => \E k \in 1..Len(c.entries) :
                                /\ c.entries[k].file_name = items[i].file_name
                                /\ c.entries[k].metadata.ftype = "symlink"
    /\ Len(w_stack) <= 3

\* C17: the recursive listing of a tree with symlinks to an ancestor and
\* symlinks in a cycle never descends through a symlink, and it terminates.
C17_WalkTerminates == [](NoLinkDescent) /\ <>(w_pc = "done")

\* A walk is over that listed a symlink to the root next to a directory in
\* the root, and a symlink to the root next to a directory one level down.
C17_Witness ==
    /\ w_pc = "done"
    /\ \E i, k \in 1..Len(w_fs.root) :
        /\ w_fs.root[i].kind = "link_up" /\ w_fs.root[i].file_name = <<"a">>
        /\ w_fs.root[k].kind = "dir" /\ w_fs.root[k].file_name = <<"B">>
    /\ \E i, k \in 1..Len(w_fs.sub) :
        /\ w_fs.sub[i].kind = "link_up"
        /\ w_fs.sub[k].kind = "dir"
    /\ w_last.path = WalkRoot
    /\ w_last.descents = <<PathJoin(WalkRoot, <<"B">>)>>
    /\ \E n \in 1..Len(w_stdout) :
        w_stdout[n] = PathJoin(PathJoin(WalkRoot, <<"B">>), <<"b">>) \o <<":">>

\* ------------------------------------------------------------------ C18

\* The byte count m * 1024^e is below 1024^6.
Below1024Pow6(v) == v.e + Scale(v.m) <= 5

\* The digits in front of the decimal point of a number, all of them when
\* it has none.
WholePart(n) ==
    IF Len(n) >= 3 /\ n[Len(n) - 1] = "." THEN SubSeq(n, 1, Len(n) - 2) ELSE n

HasDecimalPlace(n) == Len(n) >= 3 /\ n[Len(n) - 1] = "."

\* C18 (as claimed): for a byte count from 1024 up to below 1024^6 the
\* number printed in front of the unit letter is below 1024, and below 10
\* when it is printed with a decimal place.
C18_RoundedNumberInRange ==
    (h_pc = "returned" /\ ~Below1024(h_size) /\ Below1024Pow6(h_size)) =>
        LET n == NumberPart(h_out)
        IN  /\ DecimalValue(WholePart(n)) < 1024
            /\ HasDecimalPlace(n) => DecimalValue(WholePart(n)) < 10

====
